---- MODULE Spec2Model ----
(***************************************************************************)
(* pj (Project Jump): the marker-based project scanner (src/src/scanner.rs),*)
(* the fuzzy matcher wrapped around nucleo (src/src/matcher.rs) and the     *)
(* selection logic of main (src/src/main.rs).                               *)
(*                                                                          *)
(* Paths are sequences of component names, <<>> being the filesystem top.   *)
(* Strings that are matched character by character are sequences of         *)
(* one-character strings.                                                   *)
(***************************************************************************)
EXTENDS Integers, Sequences, FiniteSets, TLC

VARIABLES
    \* ---- the filesystem and the settings handed to scan_projects
    fsDirs,       \* set of paths that are real directories
    fsMarks,      \* [fsDirs -> set of names]: the marker entries in each directory
    fsLink,       \* NoLink or [at |-> path, to |-> path]: one symbolic link to a directory
    readdirRev,   \* the order in which the platform lists a directory
    config,       \* [scan_paths, project_markers, max_depth]
    \* ---- scan_projects
    scanPc,       \* "idle" | "start" | "done"
    projects,     \* the Vec<Project> scan_projects returns
    visited,      \* the entries the WalkDir loops iterated over, with root index and depth
    warnings,     \* the roots reported by eprintln! as missing
    \* ---- Matcher (the state of the Nucleo<Project> it owns)
    items,        \* the injected projects, in injection order
    pattern,      \* nucleo.pattern: the query of the last reparse
    snapshot,     \* nucleo.snapshot(): [matches, pattern, item_count]
    worker,       \* the background run not yet collected: [running, pattern, item_count]
    result,       \* the Vec<Project> the last find_matches returned
    queried,      \* whether find_matches has returned at least once
    \* ---- main
    args,         \* [mode, pattern, list]
    interactive,  \* is_interactive(): /dev/tty can be opened
    prevDir,      \* the stored previous directory: "none" | "gone" | "ok"
    mainPc,       \* "idle" | "start" | "picker" | "exit"
    stdout,       \* the paths printed with println!
    exitCode,     \* the exit status once mainPc = "exit"
    pickerList,   \* the projects handed to InteractivePicker::new
    pickerChoice  \* the position the user confirmed in the picker (0: none)

fsVars == <<fsDirs, fsMarks, fsLink, readdirRev, config>>
scanVars == <<scanPc, projects, visited, warnings>>
matcherVars == <<items, pattern, snapshot, worker, result, queried>>
mainVars == <<args, interactive, prevDir, mainPc, stdout, exitCode, pickerList, pickerChoice>>

vars == <<fsDirs, fsMarks, fsLink, readdirRev, config, scanPc, projects, visited, warnings,
          items, pattern, snapshot, worker, result, queried,
          args, interactive, prevDir, mainPc, stdout, exitCode, pickerList, pickerChoice>>

----------------------------------------------------------------------------
(* Bounds of the model *)

MaxItems == 2        \* projects injected into one Matcher
MaxFsDepth == 2      \* deepest directory below the filesystem top
MaxDirs == 2         \* directories besides the top

----------------------------------------------------------------------------
(* Generic helpers *)

Range(s) == {s[i] : i \in 1..Len(s)}

IsPrefix(p, q) == Len(p) <= Len(q) /\ SubSeq(q, 1, Len(p)) = p

RECURSIVE Flatten(_)
Flatten(ss) == IF ss = <<>> THEN <<>> ELSE Head(ss) \o Flatten(Tail(ss))

SeqsUpTo(S, n) == UNION {[1..k -> S] : k \in 0..n}

----------------------------------------------------------------------------
(* The filesystem *)

DirNames == {"a", "b"}
DirMarkers == {"git", "jj"}          \* .git and .jj are directories, Cargo.toml a file
LinkName == "l"
NoLink == [at |-> <<"-">>, to |-> <<"-">>]

\* the order of directory entries by name; readdir may list them either way
NameOrder == <<"a", "b", "git", "jj", "l", "toml">>

Home == <<"a">>

RECURSIVE Trees(_)
Trees(n) ==
    IF n = 0 THEN {{<<>>}}
    ELSE LET T == Trees(n - 1)
         IN T \cup {S \cup {Append(p, nm)} :
                       S \in T, p \in {q \in UNION T : Len(q) < MaxFsDepth}, nm \in DirNames}

PrefixClosed(S) == \A p \in S : p = <<>> \/ SubSeq(p, 1, Len(p) - 1) \in S

DirSets == {S \in Trees(MaxDirs) : PrefixClosed(S)}

Parent(p) == SubSeq(p, 1, Len(p) - 1)
Last(p) == p[Len(p)]

\* follow the symbolic link when the path goes through it (std::fs::metadata does)
Resolve(p) ==
    IF fsLink # NoLink /\ IsPrefix(fsLink.at, p)
    THEN fsLink.to \o SubSeq(p, Len(fsLink.at) + 1, Len(p))
    ELSE p

IsMarkerEntry(r) == r # <<>> /\ Parent(r) \in fsDirs /\ Last(r) \in fsMarks[Parent(r)]

\* Path::exists
Exists(p) == LET r == Resolve(p) IN r \in fsDirs \/ IsMarkerEntry(r)

\* Path::is_dir (follows symbolic links)
IsDir(p) ==
    LET r == Resolve(p)
    IN r \in fsDirs \/ (IsMarkerEntry(r) /\ Last(r) \in DirMarkers)

\* the names read_dir lists in directory p (a real directory)
ChildNames(p) ==
    {n \in DirNames : Append(p, n) \in fsDirs}
      \cup (IF p \in fsDirs THEN fsMarks[p] ELSE {})
      \cup (IF fsLink # NoLink /\ fsLink.at = Append(p, LinkName) THEN {LinkName} ELSE {})

ListDir(p) ==
    LET present == SelectSeq(NameOrder, LAMBDA n : n \in ChildNames(p))
        k == Len(present)
    IN IF readdirRev THEN [i \in 1..k |-> present[k + 1 - i]] ELSE present

----------------------------------------------------------------------------
(* scanner.rs *)

\* shellexpand::tilde: a leading "~" component becomes the home directory
TildeExpand(p) == IF p # <<>> /\ p[1] = "~" THEN Home \o Tail(p) ELSE p

\* a faulty variant of the prefix stripping: the scan root is left in place
StripPrefixNone(path, root) == path

\* Project::new: display_path is path with the scan root stripped, or path itself
StripPrefix(path, root) ==
    IF IsPrefix(root, path) THEN SubSeq(path, Len(root) + 1, Len(path)) ELSE path

\* to_string_lossy of a relative path: its components joined by "/"
RECURSIVE PathString(_)
PathString(rel) ==
    IF rel = <<>> THEN <<>>
    ELSE IF Len(rel) = 1 THEN <<rel[1]>>
    ELSE <<rel[1], "/">> \o PathString(Tail(rel))

NewProject(path, scan_root) ==
    [path |-> path, display_path |-> PathString(StripPrefix(path, scan_root))]

\* a faulty variant of is_project: every marker is required instead of any
IsProjectAll(dir, markers) == \A i \in 1..Len(markers) : Exists(Append(dir, markers[i]))

\* is_project: any marker exists directly under dir
IsProject(dir, markers) == \E i \in 1..Len(markers) : Exists(Append(dir, markers[i]))

\* WalkDir::new(root).max_depth(k).follow_links(false): pre-order, the root at depth 0,
\* symbolic links are yielded and not descended into
RECURSIVE WalkDir(_, _, _)
WalkDir(p, d, k) ==
    <<[path |-> p, depth |-> d]>> \o
    (IF d < k /\ p \in fsDirs
     THEN LET names == ListDir(p)
          IN Flatten([i \in 1..Len(names) |-> WalkDir(Append(p, names[i]), d + 1, k)])
     ELSE <<>>)

\* a faulty variant of the iterator: the depth limit taken one level too deep
WalkEntriesOffByOne(p, k) == WalkDir(p, 0, k + 1)

\* the iterator of scan_projects: WalkDir::new(&scan_path).max_depth(config.max_depth)
WalkEntries(p, k) == WalkDir(p, 0, k)

\* the inner loop of scan_projects for one existing root
ScanRoot(scan_path, cfg) ==
    LET entries == WalkEntries(scan_path, cfg.max_depth)
        hits == SelectSeq(entries,
                    LAMBDA e : IsDir(e.path) /\ IsProject(e.path, cfg.project_markers))
    IN [i \in 1..Len(hits) |-> NewProject(hits[i].path, scan_path)]

\* a faulty variant of the loop over the roots: a missing root ends the scan
RECURSIVE ScanFromAbort(_, _)
ScanFromAbort(i, cfg) ==
    IF i > Len(cfg.scan_paths) THEN [projects |-> <<>>, visited |-> <<>>, warnings |-> <<>>]
    ELSE LET root == TildeExpand(cfg.scan_paths[i])
         IN IF ~Exists(root)
            THEN [projects |-> <<>>, visited |-> <<>>, warnings |-> <<root>>]
            ELSE LET es == WalkEntries(root, cfg.max_depth)
                     rest == ScanFromAbort(i + 1, cfg)
                 IN [projects |-> ScanRoot(root, cfg) \o rest.projects,
                     visited  |-> [j \in 1..Len(es) |->
                                     [root |-> i, path |-> es[j].path, depth |-> es[j].depth]]
                                  \o rest.visited,
                     warnings |-> rest.warnings]

\* the loop of scan_projects over config.scan_paths, from root i on
RECURSIVE ScanFrom(_, _)
ScanFrom(i, cfg) ==
    IF i > Len(cfg.scan_paths) THEN [projects |-> <<>>, visited |-> <<>>, warnings |-> <<>>]
    ELSE LET root == TildeExpand(cfg.scan_paths[i])
             rest == ScanFrom(i + 1, cfg)
         IN IF ~Exists(root)
            THEN [rest EXCEPT !.warnings = <<root>> \o @]
            ELSE LET es == WalkEntries(root, cfg.max_depth)
                 IN [projects |-> ScanRoot(root, cfg) \o rest.projects,
                     visited  |-> [j \in 1..Len(es) |->
                                     [root |-> i, path |-> es[j].path, depth |-> es[j].depth]]
                                  \o rest.visited,
                     warnings |-> rest.warnings]

\* Matcher::new: nothing injected, the empty pattern, an empty snapshot, no run in flight
NoRun == [running |-> FALSE, pattern |-> <<>>, item_count |-> 0]
EmptySnapshot == [matches |-> <<>>, pattern |-> <<>>, item_count |-> 0]

MatcherNew ==
    /\ items = <<>>
    /\ pattern = <<>>
    /\ snapshot = EmptySnapshot
    /\ worker = NoRun
    /\ result = <<>>
    /\ queried = FALSE

NoArgs == [mode |-> "jump", pattern |-> <<"none">>, list |-> FALSE]

MainIdle ==
    /\ args = NoArgs
    /\ interactive = FALSE
    /\ prevDir = "none"
    /\ mainPc = "idle"
    /\ stdout = <<>>
    /\ exitCode = 0
    /\ pickerList = <<>>
    /\ pickerChoice = 0

\* the filesystem top, the home directory written with a tilde, and a path that is a
\* regular file when the top directory holds that entry and does not exist otherwise
RootChoices == {<<>>, <<"~">>, <<"toml">>}
RootLists == {<<r>> : r \in RootChoices} \cup {<<r, s>> : r \in RootChoices, s \in RootChoices}
MarkerLists == {<<"git">>, <<"git", "toml">>}
MarkChoices == {{}, {"git"}, {"toml"}}

\* at most one symbolic link, in the top directory, to a directory below it
LinkChoices(dirs) ==
    {NoLink} \cup {[at |-> <<LinkName>>, to |-> t] : t \in {d \in dirs : Len(d) = 1}}

ScanInit ==
    /\ fsDirs \in DirSets
    /\ fsMarks \in [fsDirs -> MarkChoices]
    /\ fsLink \in LinkChoices(fsDirs)
    /\ readdirRev \in BOOLEAN
    /\ config \in [scan_paths : RootLists,
                   project_markers : MarkerLists,
                   max_depth : 0..(MaxFsDepth - 1)]
    /\ scanPc = "start"
    /\ projects = <<>>
    /\ visited = <<>>
    /\ warnings = <<>>
    /\ MatcherNew
    /\ MainIdle

ScanProjects ==
    /\ scanPc = "start"
    /\ \E r \in {ScanFrom(1, config)} :
          /\ projects' = r.projects
          /\ visited' = r.visited
          /\ warnings' = r.warnings
    /\ scanPc' = "done"
    /\ UNCHANGED <<fsVars, matcherVars, mainVars>>

ScanNext == ScanProjects

ScanSpec == ScanInit /\ [][ScanNext]_vars

----------------------------------------------------------------------------
(* Properties of scan_projects *)

ExpandedRoot(i) == TildeExpand(config.scan_paths[i])
LiveRoots == {i \in 1..Len(config.scan_paths) : Exists(ExpandedRoot(i))}
Reported == Range(projects)

\* a real directory (reached from root i through real directories) holding a configured marker
MarkedDirsUnder(i) ==
    {p \in fsDirs : /\ IsPrefix(ExpandedRoot(i), p)
                    /\ \E m \in Range(config.project_markers) : Exists(Append(p, m))}

DepthUnder(i, p) == Len(p) - Len(ExpandedRoot(i))

\* C3: depth bound. Once the scan is done, every entry the walk visited under a root lies
\* at depth d <= max_depth below it (the root being depth 0); every marker-bearing
\* directory at depth <= max_depth below a live root is reported as a project of that
\* root; and every reported project lies at depth <= max_depth below a live root it is
\* reported relative to, so that a directory at depth max_depth + 1 is not reported.
C3_DepthBound ==
    scanPc = "done" =>
      /\ \A j \in 1..Len(visited) :
            /\ visited[j].depth <= config.max_depth
            /\ visited[j].depth = DepthUnder(visited[j].root, visited[j].path)
      /\ \A i \in LiveRoots : \A p \in MarkedDirsUnder(i) :
            DepthUnder(i, p) <= config.max_depth
               => NewProject(p, ExpandedRoot(i)) \in Reported
      /\ \A q \in Reported : \E i \in LiveRoots :
            /\ IsPrefix(ExpandedRoot(i), q.path)
            /\ DepthUnder(i, q.path) <= config.max_depth
            /\ q = NewProject(q.path, ExpandedRoot(i))

\* a marker-bearing directory exactly at depth max_depth is reported while one at depth
\* max_depth + 1 below the same (only) root is not
C3_Witness ==
    /\ scanPc = "done"
    /\ Len(config.scan_paths) = 1
    /\ \E p \in MarkedDirsUnder(1), q \in MarkedDirsUnder(1) :
          /\ DepthUnder(1, p) = config.max_depth
          /\ DepthUnder(1, q) = config.max_depth + 1
          /\ \E r \in Reported : r.path = p
          /\ \A r \in Reported : r.path # q

\* C4: classification. Once the scan is done, a directory the walk visited under a root
\* is reported as a project of that root if and only if at least one configured marker
\* name exists in it (file or directory), whatever its depth and whether or not an
\* enclosing directory is itself a project; and nothing else is reported.
C4_Classification ==
    scanPc = "done" =>
      /\ \A j \in 1..Len(visited) :
            IsDir(visited[j].path) =>
              (NewProject(visited[j].path, ExpandedRoot(visited[j].root)) \in Reported
                 <=> \E m \in Range(config.project_markers) :
                        Exists(Append(visited[j].path, m)))
      /\ \A q \in Reported : \E j \in 1..Len(visited) :
            /\ IsDir(visited[j].path)
            /\ q = NewProject(visited[j].path, ExpandedRoot(visited[j].root))

\* a project nested inside another reported project, a visited directory without marker
\* that is not reported, and a project made by the second marker of the list alone
C4_Witness ==
    /\ scanPc = "done"
    /\ \E p \in Reported, q \in Reported :
          /\ IsPrefix(p.path, q.path) /\ p.path # q.path
          /\ \E m \in Range(config.project_markers) \ {config.project_markers[1]} :
                /\ Exists(Append(q.path, m))
                /\ ~Exists(Append(q.path, config.project_markers[1]))
    /\ \E j \in 1..Len(visited) :
          /\ visited[j].path \in fsDirs
          /\ \A r \in Reported : r.path # visited[j].path

\* C5: the vector scan_projects returns holds no two entries with the same path
C5_DistinctPaths ==
    scanPc = "done" =>
      \A i \in 1..Len(projects), j \in 1..Len(projects) :
         i # j => projects[i].path # projects[j].path

\* the visited entries that are directories holding a configured marker, in visiting order
Discovered ==
    SelectSeq(visited,
              LAMBDA v : /\ IsDir(v.path)
                         /\ \E m \in Range(config.project_markers) : Exists(Append(v.path, m)))

\* a relative path as text: names separated by single "/", none leading or trailing
WellFormedRelative(s) ==
    \A k \in 1..Len(s) : (s[k] = "/") <=> (k % 2 = 0 /\ k < Len(s))

\* the names a relative path text is made of
RelComponents(s) == SelectSeq(s, LAMBDA c : c # "/")

\* C12: display path. Once the scan is done, the k-th returned project is the k-th
\* discovered directory, and its display_path is the text of a relative path which,
\* appended to the (tilde-expanded) scan root under which that directory was visited,
\* gives its path: empty for a scan root that is itself a project, and relative to each
\* root in turn for a directory discovered under more than one root.
C12_DisplayPath ==
    scanPc = "done" =>
      \A found \in {Discovered} :
         /\ Len(projects) = Len(found)
         /\ \A k \in 1..Len(projects) :
               /\ projects[k].path = found[k].path
               /\ WellFormedRelative(projects[k].display_path)
               /\ ExpandedRoot(found[k].root) \o RelComponents(projects[k].display_path)
                     = projects[k].path

\* one directory reported under two roots, once as the root itself with an empty
\* display_path and once below the other root with a non-empty one
C12_Witness ==
    /\ scanPc = "done"
    /\ \E i \in 1..Len(projects), j \in 1..Len(projects) :
          /\ projects[i].path = projects[j].path
          /\ projects[i].display_path = <<>>
          /\ projects[j].display_path # <<>>
          /\ Len(Discovered) = Len(projects)
          /\ Discovered[i].root # Discovered[j].root

\* the expanded roots, in configuration order, that satisfy a test
RootsWhere(Test(_)) ==
    SelectSeq([i \in 1..Len(config.scan_paths) |-> ExpandedRoot(i)], Test)

\* the projects found under the roots that are directories, root after root
ProjectsOfValidRoots ==
    LET valid == RootsWhere(IsDir)
    IN Flatten([i \in 1..Len(valid) |-> ScanRoot(valid[i], config)])

NotDir(p) == ~IsDir(p)
NotExists(p) == ~Exists(p)

\* C13 (as claimed): every scan root that does not resolve to an existing directory is
\* skipped with a warning, and the scan returns exactly the projects found under the
\* valid roots.
C13_MissingRootAsClaimed ==
    scanPc = "done" =>
      /\ warnings = RootsWhere(NotDir)
      /\ projects = ProjectsOfValidRoots

\* C13 (amended): every scan root that does not exist is skipped with a warning, a root
\* that exists without being a directory is walked without a warning and contributes
\* nothing, and the scan always ends returning exactly the projects found under the
\* roots that are directories (none when no root is a directory).
C13_MissingRoot ==
    scanPc = "done" =>
      /\ warnings = RootsWhere(NotExists)
      /\ projects = ProjectsOfValidRoots
      /\ (RootsWhere(IsDir) = <<>> => projects = <<>>)

\* a missing root listed before a valid one: one warning, and the projects of the valid
\* root are returned
C13_Witness ==
    /\ scanPc = "done"
    /\ Len(config.scan_paths) = 2
    /\ ~Exists(ExpandedRoot(1))
    /\ IsDir(ExpandedRoot(2))
    /\ warnings = <<ExpandedRoot(1)>>
    /\ projects # <<>>

\* C14: symbolic links are never followed. Once the scan is done, no visited entry lies
\* below the symbolic link, and no reported project is the symbolic link or lies below it:
\* a directory is never classified or reported through the link.
C14_NoSymlinkFollowed ==
    (scanPc = "done" /\ fsLink # NoLink) =>
      /\ \A j \in 1..Len(visited) :
            IsPrefix(fsLink.at, visited[j].path) => visited[j].path = fsLink.at
      /\ \A q \in Reported : ~IsPrefix(fsLink.at, q.path)

----------------------------------------------------------------------------
(* nucleo: the pattern syntax and the scores behind Matcher::find_matches.      *)
(* Strings are sequences of one-character strings over the characters below;   *)
(* the backslash escapes of the pattern syntax are outside this alphabet.      *)

UpperChars == {"A", "B"}
LowerChars == {"a", "b", "l"}
DelimiterChars == {"/"}            \* nucleo Config::DEFAULT delimiters seen in paths

\* char::to_lowercase on the alphabet
ToLower(c) == IF c = "A" THEN "a" ELSE IF c = "B" THEN "b" ELSE c

LowerStr(s) == [i \in 1..Len(s) |-> ToLower(s[i])]

\* nucleo score constants
SCORE_MATCH == 16
PENALTY_GAP_START == 3
PENALTY_GAP_EXTENSION == 1
BONUS_BOUNDARY == 8
BONUS_CAMEL123 == 5
BONUS_CONSECUTIVE == 4
BONUS_FIRST_CHAR_MULTIPLIER == 2
BONUS_BOUNDARY_WHITE == 10
BONUS_BOUNDARY_DELIMITER == 9

Max(a, b) == IF a > b THEN a ELSE b
SatSub(a, b) == IF a > b THEN a - b ELSE 0

CharClass(c) ==
    IF c = " " THEN "Whitespace"
    ELSE IF c \in DelimiterChars THEN "Delimiter"
    ELSE IF c \in LowerChars THEN "Lower"
    ELSE IF c \in UpperChars THEN "Upper"
    ELSE "NonWord"

\* the bonus of a matched character of class cls that follows a character of class prev
BonusFor(prev, cls) ==
    IF cls \in {"Lower", "Upper"} /\ prev = "Whitespace" THEN BONUS_BOUNDARY_WHITE
    ELSE IF cls \in {"Lower", "Upper"} /\ prev = "Delimiter" THEN BONUS_BOUNDARY_DELIMITER
    ELSE IF cls \in {"Lower", "Upper"} /\ prev = "NonWord" THEN BONUS_BOUNDARY
    ELSE IF prev = "Lower" /\ cls = "Upper" THEN BONUS_CAMEL123
    ELSE IF cls = "Whitespace" THEN BONUS_BOUNDARY_WHITE
    ELSE IF cls = "NonWord" THEN BONUS_BOUNDARY
    ELSE 0

\* the bonus of each haystack position; the text starts after an imagined whitespace
BonusAt(h, j) == BonusFor(IF j = 1 THEN "Whitespace" ELSE CharClass(h[j - 1]), CharClass(h[j]))

\* the haystack as the matcher compares it: lowercased when the atom ignores case
Normalized(h, ignore_case) == IF ignore_case THEN LowerStr(h) ELSE h

\* leftmost position >= from where character c occurs in h, or 0
RECURSIVE FindFrom(_, _, _)
FindFrom(h, c, from) ==
    IF from > Len(h) THEN 0
    ELSE IF h[from] = c THEN from
    ELSE FindFrom(h, c, from + 1)

\* greedy leftmost positions of the needle characters, 0 where the needle cannot be embedded
RECURSIVE RowOffs(_, _, _, _)
RowOffs(h, n, i, from) ==
    IF i > Len(n) THEN <<>>
    ELSE LET at == FindFrom(h, n[i], from)
         IN IF at = 0 THEN <<0>> ELSE <<at>> \o RowOffs(h, n, i + 1, at + 1)

\* the needle is a subsequence of the haystack
IsSubsequence(h, n) == LET offs == RowOffs(h, n, 1, 1) IN Len(offs) = Len(n) /\ 0 \notin Range(offs)

UNMATCHED == [matched |-> FALSE, score |-> 0, consecutive_bonus |-> 0]

\* p_score: the best score with the last match strictly before this column
PScoreStep(prev_p, prev_m) == Max(SatSub(prev_m, PENALTY_GAP_START), SatSub(prev_p, PENALTY_GAP_EXTENSION))

RECURSIVE PAt(_, _, _)
PAt(row, off, j) ==
    IF j <= off THEN 0 ELSE PScoreStep(PAt(row, off, j - 1), row[j - 1].score)

\* next_m_cell: the needle character matched here, after a consecutive match or after a gap
NextMCell(p_score, bonus, m_cell) ==
    IF ~m_cell.matched
    THEN [matched |-> TRUE, score |-> p_score + bonus + SCORE_MATCH, consecutive_bonus |-> bonus]
    ELSE LET c0 == Max(m_cell.consecutive_bonus, BONUS_CONSECUTIVE)
             c1 == IF bonus >= BONUS_BOUNDARY /\ bonus > c0 THEN bonus ELSE c0
             score_match == m_cell.score + Max(c1, bonus)
             score_skip == p_score + bonus
         IN IF score_match > score_skip
            THEN [matched |-> TRUE, score |-> score_match + SCORE_MATCH, consecutive_bonus |-> c1]
            ELSE [matched |-> TRUE, score |-> score_skip + SCORE_MATCH, consecutive_bonus |-> bonus]

\* row i of the score matrix: cell j scores needle[1..i] matched with needle[i] at haystack j
RECURSIVE ScoreRow(_, _, _, _, _)
ScoreRow(hn, h, n, offs, i) ==
    IF i = 1
    THEN [j \in 1..Len(hn) |->
            IF hn[j] = n[1]
            THEN [matched |-> TRUE,
                  score |-> BonusAt(h, j) * BONUS_FIRST_CHAR_MULTIPLIER + SCORE_MATCH,
                  consecutive_bonus |-> BonusAt(h, j)]
            ELSE UNMATCHED]
    ELSE LET prev == ScoreRow(hn, h, n, offs, i - 1)
         IN [j \in 1..Len(hn) |->
               IF j > offs[i - 1] /\ hn[j] = n[i]
               THEN NextMCell(PAt(prev, offs[i - 1], j - 1), BonusAt(h, j), prev[j - 1])
               ELSE UNMATCHED]

\* Option::None of a score
NoScore == 0 - 1

SetMax(S) == CHOOSE x \in S : \A y \in S : y <= x

\* Matcher::fuzzy_match: the best score of the needle as a subsequence, or none
FuzzyScore(h, n, ignore_case) ==
    LET hn == Normalized(h, ignore_case)
    IN IF ~IsSubsequence(hn, n) THEN NoScore
       ELSE LET row == ScoreRow(hn, h, n, RowOffs(hn, n, 1, 1), Len(n))
            IN SetMax({row[j].score : j \in 1..Len(hn)})

\* calculate_score of the needle matched contiguously from position s
RECURSIVE ContiguousFrom(_, _, _, _, _)
ContiguousFrom(h, len, s, k, first_bonus) ==
    IF k >= len THEN 0
    ELSE LET b == BonusAt(h, s + k)
             fb == IF b >= BONUS_BOUNDARY /\ b > first_bonus THEN b ELSE first_bonus
         IN SCORE_MATCH + Max(Max(b, fb), BONUS_CONSECUTIVE) + ContiguousFrom(h, len, s, k + 1, fb)

ContiguousScore(h, len, s) ==
    SCORE_MATCH + BonusAt(h, s) * BONUS_FIRST_CHAR_MULTIPLIER
      + ContiguousFrom(h, len, s, 1, BonusAt(h, s))

Occurrences(hn, n) == {s \in 1..(Len(hn) - Len(n) + 1) : SubSeq(hn, s, s + Len(n) - 1) = n}

\* substring_match, prefix_match, postfix_match, exact_match
SubstringScore(h, n, ignore_case) ==
    LET occ == Occurrences(Normalized(h, ignore_case), n)
    IN IF occ = {} THEN NoScore ELSE SetMax({ContiguousScore(h, Len(n), s) : s \in occ})

PrefixScore(h, n, ignore_case) ==
    IF 1 \in Occurrences(Normalized(h, ignore_case), n) THEN ContiguousScore(h, Len(n), 1) ELSE NoScore

PostfixScore(h, n, ignore_case) ==
    LET s == Len(h) - Len(n) + 1
    IN IF s \in Occurrences(Normalized(h, ignore_case), n) THEN ContiguousScore(h, Len(n), s) ELSE NoScore

ExactScore(h, n, ignore_case) ==
    IF Normalized(h, ignore_case) = n THEN ContiguousScore(h, Len(n), 1) ELSE NoScore


----------------------------------------------------------------------------
(* nucleo: Pattern::reparse and Pattern::score *)

\* split the query at spaces into its non-empty words
RECURSIVE SplitWords(_, _)
SplitWords(q, cur) ==
    IF q = <<>> THEN (IF cur = <<>> THEN <<>> ELSE <<cur>>)
    ELSE IF Head(q) = " "
         THEN (IF cur = <<>> THEN <<>> ELSE <<cur>>) \o SplitWords(Tail(q), <<>>)
         ELSE SplitWords(Tail(q), Append(cur, Head(q)))

StartsWith(w, c) == w # <<>> /\ w[1] = c
EndsWith(w, c) == w # <<>> /\ w[Len(w)] = c
DropFirst(w) == SubSeq(w, 2, Len(w))
DropLast(w) == SubSeq(w, 1, Len(w) - 1)

\* Atom::parse: "!" negates, "^" anchors at the start, "'" asks for a substring,
\* a trailing "$" anchors at the end; CaseMatching::Smart ignores case unless the
\* needle holds an uppercase character
ParseAtom(raw) ==
    LET invert == StartsWith(raw, "!")
        a1 == IF invert THEN DropFirst(raw) ELSE raw
        k1 == IF StartsWith(a1, "^") THEN "Prefix"
              ELSE IF StartsWith(a1, "'") THEN "Substring" ELSE "Fuzzy"
        a2 == IF k1 = "Fuzzy" THEN a1 ELSE DropFirst(a1)
        dollar == EndsWith(a2, "$")
        k2 == IF ~dollar THEN k1 ELSE IF k1 = "Fuzzy" THEN "Postfix" ELSE "Exact"
        a3 == IF dollar THEN DropLast(a2) ELSE a2
        kind == IF invert /\ k2 = "Fuzzy" THEN "Substring" ELSE k2
    IN [needle |-> a3, kind |-> kind, negative |-> invert,
        ignore_case |-> \A i \in 1..Len(a3) : a3[i] \notin UpperChars]

\* Pattern::reparse: the atoms of the query, those with an empty needle dropped
ParsePattern(q) ==
    LET words == SplitWords(q, <<>>)
        atoms == [i \in 1..Len(words) |-> ParseAtom(words[i])]
    IN SelectSeq(atoms, LAMBDA a : a.needle # <<>>)

\* Atom::score
AtomScore(a, h) ==
    LET sc == IF Len(a.needle) > Len(h) THEN NoScore
              ELSE IF a.kind = "Fuzzy" THEN FuzzyScore(h, a.needle, a.ignore_case)
              ELSE IF a.kind = "Substring" THEN SubstringScore(h, a.needle, a.ignore_case)
              ELSE IF a.kind = "Prefix" THEN PrefixScore(h, a.needle, a.ignore_case)
              ELSE IF a.kind = "Postfix" THEN PostfixScore(h, a.needle, a.ignore_case)
              ELSE ExactScore(h, a.needle, a.ignore_case)
    IN IF a.negative THEN (IF sc = NoScore THEN 0 ELSE NoScore) ELSE sc

\* Pattern::score: every atom has to match; the score is the sum
RECURSIVE PatternScoreFrom(_, _, _)
PatternScoreFrom(atoms, h, i) ==
    IF i > Len(atoms) THEN 0
    ELSE LET sc == AtomScore(atoms[i], h)
             rest == PatternScoreFrom(atoms, h, i + 1)
         IN IF sc = NoScore \/ rest = NoScore THEN NoScore ELSE sc + rest

PatternScore(q, h) == PatternScoreFrom(ParsePattern(q), h, 1)


----------------------------------------------------------------------------
(* matcher.rs: Matcher over nucleo::Nucleo<Project> *)

\* the order of the worker's sort: score descending, then shorter text, then injection order
Before(its, q, i, j) ==
    LET si == PatternScore(q, its[i].display_path)
        sj == PatternScore(q, its[j].display_path)
        li == Len(its[i].display_path)
        lj == Len(its[j].display_path)
    IN IF si # sj THEN si > sj
       ELSE IF li # lj THEN li < lj
       ELSE i < j

RECURSIVE SortMatches(_, _, _)
SortMatches(its, q, S) ==
    IF S = {} THEN <<>>
    ELSE LET first == CHOOSE i \in S : \A j \in S \ {i} : Before(its, q, i, j)
         IN <<first>> \o SortMatches(its, q, S \ {first})

\* the worker's run over the first n items: with an empty pattern every item in injection
\* order, otherwise the items the pattern scores, sorted
WorkerRun(its, q, n) ==
    IF ParsePattern(q) = <<>> THEN [i \in 1..n |-> i]
    ELSE SortMatches(its, q, {i \in 1..n : PatternScore(q, its[i].display_path) # NoScore})

\* the snapshot a finished run leaves
SnapshotOf(its, q, n) == [matches |-> WorkerRun(its, q, n), pattern |-> q, item_count |-> n]

\* Nucleo::tick, first half (the pattern changed): the run still in flight is cancelled and
\* waited for; if it had finished before the cancellation reached it, its result becomes
\* the snapshot, taken over the items it had seen when it ran
CollectOutcomes(its, snap, w) ==
    IF ~w.running THEN {snap}
    ELSE {snap} \cup {SnapshotOf(its, w.pattern, n) : n \in w.item_count..Len(its)}

\* Nucleo::tick(10) after pattern.reparse(q): collect, start a run for q over all items,
\* then wait at most 10 ms for it: either it finished and its result is the snapshot, or
\* the wait timed out, the snapshot stays what it was and the run stays in flight
TickOutcomes(its, snap, w, q) ==
    {[snapshot |-> SnapshotOf(its, q, Len(its)), worker |-> NoRun]}
      \cup {[snapshot |-> s0, worker |-> [running |-> TRUE, pattern |-> q, item_count |-> Len(its)]] :
               s0 \in CollectOutcomes(its, snap, w)}

\* a faulty variant of the collection: the projects are rebuilt from their paths
MatchedItemsRebuilt(its, snap) ==
    [k \in 1..Len(snap.matches) |->
        [path |-> its[snap.matches[k]].path,
         display_path |-> PathString(its[snap.matches[k]].path)]]

\* snapshot.matched_items(..snapshot.matched_item_count()).map(|item| item.data.clone())
MatchedItems(its, snap) == [k \in 1..Len(snap.matches) |-> its[snap.matches[k]]]

\* the projects and queries the matcher is driven with
Catalog ==
    {[path |-> <<"a", "b">>, display_path |-> <<"a", "/", "b">>],
     [path |-> <<"a", "b">>, display_path |-> <<"b">>],
     [path |-> <<"b">>,      display_path |-> <<"b">>],
     [path |-> <<"a", "b", "a">>, display_path |-> <<"b", "/", "a">>]}

Patterns ==
    {<<>>, <<"b">>, <<"a", "b">>, <<"b", "a">>, <<"a", "/">>, <<"b", " ", "a">>, <<"!", "a">>}

MatcherInit ==
    /\ MatcherNew
    /\ fsDirs = {<<>>} /\ fsMarks = [d \in {<<>>} |-> {}] /\ fsLink = NoLink
    /\ readdirRev = FALSE
    /\ config = [scan_paths |-> <<>>, project_markers |-> <<>>, max_depth |-> 0]
    /\ scanPc = "idle" /\ projects = <<>> /\ visited = <<>> /\ warnings = <<>>
    /\ MainIdle

\* Matcher::add_projects
AddProjects(batch) ==
    /\ Len(items) + Len(batch) <= MaxItems
    /\ items' = items \o batch
    /\ UNCHANGED <<pattern, snapshot, worker, result, queried>>
    /\ UNCHANGED <<fsVars, scanVars, mainVars>>

\* Matcher::find_matches
FindMatches(q) ==
    /\ pattern' = q
    /\ \E o \in TickOutcomes(items, snapshot, worker, q) :
          /\ snapshot' = o.snapshot
          /\ worker' = o.worker
          /\ result' = MatchedItems(items, o.snapshot)
    /\ queried' = TRUE
    /\ UNCHANGED items
    /\ UNCHANGED <<fsVars, scanVars, mainVars>>

MatcherNext ==
    \/ \E batch \in SeqsUpTo(Catalog, MaxItems) \ {<<>>} : AddProjects(batch)
    \/ \E q \in Patterns : FindMatches(q)

MatcherSpec == MatcherInit /\ [][MatcherNext]_vars

\* the same Matcher driven with projects and queries that exercise case and ranking:
\* mixed case, a contiguous and a scattered match, matches at and off a segment start
RankCatalog ==
    {[path |-> <<"A", "B">>, display_path |-> <<"A", "/", "B">>],
     [path |-> <<"a", "b">>, display_path |-> <<"a", "/", "b">>],
     [path |-> <<"bab">>,    display_path |-> <<"b", "a", "b">>],
     [path |-> <<"bba">>,    display_path |-> <<"b", "b", "a">>]}

RankPatterns == {<<"a">>, <<"a", "b">>, <<"A", " ", "b">>}

RankNext ==
    \/ \E batch \in SeqsUpTo(RankCatalog, MaxItems) \ {<<>>} : AddProjects(batch)
    \/ \E q \in RankPatterns : FindMatches(q)

RankSpec == MatcherInit /\ [][RankNext]_vars


----------------------------------------------------------------------------
(* main.rs and picker.rs *)

NoPattern == <<"none">>
DashPattern == <<"-">>
PrevDirLine == <<"prev">>

Outcome(pc, out, code, plist) == [pc |-> pc, stdout |-> out, exitCode |-> code, pickerList |-> plist]

Paths(ps) == [i \in 1..Len(ps) |-> ps[i].path]

\* more than one candidate, or no pattern: print them all, or hand them to the picker
ListOrPick(cands, list, tty) ==
    IF list \/ ~tty THEN Outcome("exit", Paths(cands), 0, <<>>)
    ELSE Outcome("picker", <<>>, 0, cands)

\* a faulty variant of the selection: a single match treated like several
SelectMatchesNoSingle(matches, list, tty) ==
    IF Len(matches) = 0 THEN Outcome("exit", <<>>, 1, <<>>)
    ELSE ListOrPick(matches, list, tty)

\* match matches.len() { 0 => exit(1), 1 => print the path, _ => list or picker }
SelectMatches(matches, list, tty) ==
    IF Len(matches) = 0 THEN Outcome("exit", <<>>, 1, <<>>)
    ELSE IF Len(matches) = 1 THEN Outcome("exit", <<matches[1].path>>, 0, <<>>)
    ELSE ListOrPick(matches, list, tty)

\* pj -: the stored previous directory, if there is one and it still exists
JumpPrev(prev) ==
    IF prev = "ok" THEN Outcome("exit", <<PrevDirLine>>, 0, <<>>)
    ELSE Outcome("exit", <<>>, 1, <<>>)

MainInit ==
    /\ fsDirs = {<<>>} /\ fsMarks = [d \in {<<>>} |-> {}] /\ fsLink = NoLink
    /\ readdirRev = FALSE
    /\ config = [scan_paths |-> <<>>, project_markers |-> <<>>, max_depth |-> 0]
    /\ scanPc = "done" /\ visited = <<>> /\ warnings = <<>>
    /\ projects \in SeqsUpTo(Catalog, MaxItems)
    /\ MatcherNew
    /\ args \in [mode : {"jump", "set_prev", "init_config"},
                 pattern : Patterns \cup {NoPattern, DashPattern},
                 list : BOOLEAN]
    /\ interactive \in BOOLEAN
    /\ prevDir \in {"none", "gone", "ok"}
    /\ mainPc = "start"
    /\ stdout = <<>>
    /\ exitCode = 0
    /\ pickerList = <<>>
    /\ pickerChoice = 0

Finish(o) ==
    /\ mainPc' = o.pc
    /\ stdout' = o.stdout
    /\ exitCode' = o.exitCode
    /\ pickerList' = o.pickerList

\* main, up to its exit or to the interactive picker
MainRun ==
    /\ mainPc = "start"
    /\ IF args.mode = "set_prev"
       THEN /\ prevDir' \in {"ok", "gone"}
            /\ Finish(Outcome("exit", <<>>, 0, <<>>))
            /\ UNCHANGED matcherVars
       ELSE IF args.mode = "init_config"
       THEN /\ Finish(Outcome("exit", <<<<"config">>>>, 0, <<>>))
            /\ UNCHANGED <<prevDir, matcherVars>>
       ELSE IF projects = <<>>
       THEN /\ Finish(Outcome("exit", <<>>, 1, <<>>))
            /\ UNCHANGED <<prevDir, matcherVars>>
       ELSE IF args.pattern = NoPattern
       THEN /\ Finish(ListOrPick(projects, args.list, interactive))
            /\ UNCHANGED <<prevDir, matcherVars>>
       ELSE IF args.pattern = DashPattern
       THEN /\ Finish(JumpPrev(prevDir))
            /\ UNCHANGED <<prevDir, matcherVars>>
       ELSE /\ items' = projects
            /\ pattern' = args.pattern
            /\ \E o \in TickOutcomes(projects, EmptySnapshot, NoRun, args.pattern) :
                  /\ snapshot' = o.snapshot
                  /\ worker' = o.worker
                  /\ result' = MatchedItems(projects, o.snapshot)
                  /\ Finish(SelectMatches(MatchedItems(projects, o.snapshot),
                                          args.list, interactive))
            /\ queried' = TRUE
            /\ UNCHANGED prevDir
    /\ pickerChoice' = 0
    /\ UNCHANGED <<fsVars, scanVars, args, interactive>>

\* the first project whose display_path equals the selected text
FindByDisplay(ps, text) ==
    ps[CHOOSE i \in 1..Len(ps) :
         /\ ps[i].display_path = text
         /\ \A j \in 1..(i - 1) : ps[j].display_path # text]

\* InteractivePicker::pick: the user confirms the entry at position choice, or aborts (0)
PickerPick(choice) ==
    /\ mainPc = "picker"
    /\ pickerChoice' = choice
    /\ IF choice = 0
       THEN /\ stdout' = <<>>
            /\ exitCode' = 1
       ELSE /\ stdout' = <<FindByDisplay(pickerList, pickerList[choice].display_path).path>>
            /\ exitCode' = 0
    /\ mainPc' = "exit"
    /\ UNCHANGED <<fsVars, scanVars, matcherVars, args, interactive, prevDir, pickerList>>

MainNext ==
    \/ MainRun
    \/ \E choice \in 0..Len(pickerList) : PickerPick(choice)

MainSpec == MainInit /\ [][MainNext]_vars


----------------------------------------------------------------------------
(* Properties of Matcher *)

\* what a settled scoring of pattern q over all of its returns
Settled(its, q) == MatchedItems(its, SnapshotOf(its, q, Len(its)))

\* every character of q occurs in h in the same order, case ignored unless q holds an
\* uppercase character
SmartSubsequence(h, q) ==
    IsSubsequence(Normalized(h, \A i \in 1..Len(q) : q[i] \notin UpperChars), q)

\* C1: a find_matches(p) call (a step that leaves the injected items alone) returns the
\* settled, complete result for exactly p over the items injected so far, never the
\* result of an earlier pattern and never an unfinished one.
C1_QuerySettled ==
    [][items' = items => result' = Settled(items, pattern')]_vars

\* C2: every project injected before a find_matches call that matches its pattern is in
\* the list the call returns.
C2_AddedVisible ==
    [][items' = items =>
         \A i \in 1..Len(items) :
            PatternScore(pattern', items[i].display_path) # NoScore
               => items[i] \in Range(result')]_vars

\* C6: no list returned by find_matches holds two entries with the same path.
C6_IngestIdempotent ==
    \A i \in 1..Len(result), j \in 1..Len(result) :
       i # j => result[i].path # result[j].path

C9_EmptyQueryAll ==
    [][(items' = items /\ pattern' = <<>>) =>
         /\ Len(result') = Len(items)
         /\ \A i \in 1..Len(items) : items[i] \in Range(result')]_vars

\* C10: for a non-empty query q, find_matches(q) holds an injected project if and only if
\* the characters of q occur in its display_path in the same relative order.
C10_FuzzySubsequence ==
    [][(items' = items /\ pattern' # <<>>) =>
         \A i \in 1..Len(items) :
            items[i] \in Range(result') <=> SmartSubsequence(items[i].display_path, pattern')]_vars

\* how often v occurs in the sequence
Count(seq, v) == Cardinality({k \in 1..Len(seq) : seq[k] = v})

\* C15: after any sequence of add_projects and find_matches calls, every element of the
\* last find_matches result equals (path and display_path) an injected project, occurs in
\* the result at most as often as it was injected, and the result has no more entries
\* than were injected.
C15_SubsetOfIngested ==
    /\ Len(result) <= Len(items)
    /\ \A v \in Range(result) :
          /\ v \in Range(items)
          /\ Count(result, v) <= Count(items, v)

\* a result that is a permutation of two distinct injected projects, the second first
C15_Witness ==
    /\ queried
    /\ Len(items) = 2 /\ Len(result) = 2
    /\ items[1] # items[2]
    /\ result[1] = items[2] /\ result[2] = items[1]

\* the query holds an uppercase character
HasUpper(q) == \E k \in 1..Len(q) : q[k] \in UpperChars

\* C11: smart case. A find_matches call with a non-empty query without uppercase letter
\* returns every injected project whose display_path, case ignored, holds the query's
\* characters in order; a call with a query holding an uppercase letter returns only
\* projects in whose display_path every letter of the query occurs in the same case.
C11_SmartCase ==
    [][(items' = items /\ pattern' # <<>>) =>
         \A i \in 1..Len(items) :
            /\ (~HasUpper(pattern') /\ IsSubsequence(LowerStr(items[i].display_path), pattern'))
                  => items[i] \in Range(result')
            /\ (HasUpper(pattern') /\ items[i] \in Range(result'))
                  => \A k \in 1..Len(pattern') :
                        pattern'[k] \in UpperChars \cup LowerChars
                           => pattern'[k] \in Range(items[i].display_path)]_vars

\* the ways the characters of q occur in h in order (smart case): the positions matched
Embeddings(h, q) ==
    LET hn == Normalized(h, ~HasUpper(q))
    IN {f \in [1..Len(q) -> 1..Len(h)] :
          /\ \A i \in 1..(Len(q) - 1) : f[i] < f[i + 1]
          /\ \A i \in 1..Len(q) : hn[f[i]] = q[i]}

\* the longest run of adjacent matched positions
RunLength(f) ==
    SetMax({r[2] - r[1] + 1 :
               r \in {r2 \in (DOMAIN f) \X (DOMAIN f) :
                        /\ r2[1] <= r2[2]
                        /\ \A k \in r2[1]..(r2[2] - 1) : f[k + 1] = f[k] + 1}})

\* the match starts at the start of the text or right after a separator
AtBoundary(h, f) == f[1] = 1 \/ h[f[1] - 1] \in DelimiterChars

\* relevance in the stated priority: run length, segment start, shortness, earliness
RelevanceKey(h, f) ==
    <<RunLength(f), IF AtBoundary(h, f) THEN 1 ELSE 0, 0 - Len(h), 0 - f[1]>>

LexLess(a, b) == \E k \in 1..Len(a) : a[k] < b[k] /\ \A j \in 1..(k - 1) : a[j] = b[j]

\* the relevance of the best way to match q in h
BestKey(h, q) ==
    LET keys == {RelevanceKey(h, f) : f \in Embeddings(h, q)}
    IN CHOOSE k \in keys : \A k2 \in keys : ~LexLess(k, k2)

\* C16: ranking. A find_matches call with a non-empty query returns every injected
\* project in whose display_path the query's characters occur in order (segment
\* initials included), and returns them highest relevance first: no returned project is
\* preceded by one of lower relevance, relevance comparing first the length of the
\* longest contiguous run of matched characters, then whether the match starts at a
\* segment boundary, then the shorter candidate, then the earlier first matched character.
C16_Ranking ==
    [][(items' = items /\ pattern' # <<>>) =>
         /\ \A i \in 1..Len(items) :
               Embeddings(items[i].display_path, pattern') # {} => items[i] \in Range(result')
         /\ \A x \in 1..Len(result'), y \in 1..Len(result') :
               (/\ x < y
                /\ Embeddings(result'[x].display_path, pattern') # {}
                /\ Embeddings(result'[y].display_path, pattern') # {})
                  => ~LexLess(BestKey(result'[x].display_path, pattern'),
                              BestKey(result'[y].display_path, pattern'))]_vars

----------------------------------------------------------------------------
(* Properties of main *)

Jumping == mainPc # "start" /\ args.mode = "jump" /\ projects # <<>> /\ args.pattern # DashPattern

\* the candidate list of the invocation: the matches of the query, or all projects
Candidates == IF args.pattern = NoPattern THEN projects ELSE result

\* C7 (as claimed): exactly one candidate, with or without a query string, is printed
\* directly and the picker is never invoked; the picker is reached only with more than
\* one candidate; no candidate ends with the 'no match' status.
C7_SelectionAsClaimed ==
    Jumping =>
      /\ Len(Candidates) = 1 => (pickerList = <<>> /\ stdout = <<Candidates[1].path>>)
      /\ pickerList # <<>> => Len(Candidates) > 1
      /\ Len(Candidates) = 0 => (mainPc = "exit" /\ exitCode = 1 /\ stdout = <<>>)

\* C7 (amended): with a query string, exactly one match is printed directly and the
\* picker is never invoked, the listing or the picker is reached only with more than one
\* match, and no match ends with exit status 1 and nothing printed; with no query string
\* all projects are listed or handed to the picker, also when there is exactly one.
C7_Selection ==
    Jumping =>
      IF args.pattern # NoPattern
      THEN /\ Len(result) = 1 =>
                (mainPc = "exit" /\ pickerList = <<>> /\ exitCode = 0
                   /\ stdout = <<result[1].path>>)
           /\ Len(result) = 0 =>
                (mainPc = "exit" /\ pickerList = <<>> /\ exitCode = 1 /\ stdout = <<>>)
           /\ Len(result) > 1 =>
                IF args.list \/ ~interactive
                THEN mainPc = "exit" /\ pickerList = <<>> /\ stdout = Paths(result)
                ELSE pickerList = result
      ELSE IF args.list \/ ~interactive
           THEN mainPc = "exit" /\ pickerList = <<>> /\ stdout = Paths(projects)
           ELSE pickerList = projects

\* C17: once the picker has returned, the project it returned is the entry at the
\* position the user confirmed (its path is what main prints), also when another entry
\* of the list has the same display_path; an abort returns none and main exits with 1.
C17_PickReturnsSelected ==
    (mainPc = "exit" /\ pickerList # <<>>) =>
      IF pickerChoice = 0
      THEN stdout = <<>> /\ exitCode = 1
      ELSE stdout = <<pickerList[pickerChoice].path>> /\ exitCode = 0

\* a query that matches one of several projects, in a terminal and without --list: the
\* path is printed and no picker was shown
C7_Witness ==
    /\ mainPc = "exit" /\ args.mode = "jump" /\ args.pattern \notin {NoPattern, DashPattern}
    /\ interactive /\ ~args.list
    /\ Len(projects) > 1 /\ Len(result) = 1
    /\ stdout = <<result[1].path>> /\ pickerList = <<>> /\ exitCode = 0


====
